---- MODULE Spec2Model ----
(***************************************************************************)
(* Model of ops/ccs-ops-misc/load_test/common/stats/aggregated_stats.py:   *)
(* StatsCollector, TaskStats, StatsMetadata and AggregatedStats.           *)
(*                                                                         *)
(* Representation of Python values:                                        *)
(*   - an instance of a dataclass C is [type |-> "C", fields |-> record];  *)
(*     a dict with string keys is [type |-> "dict", fields |-> record];    *)
(*   - Optional numbers are sequences: <<>> is None, <<v>> is the value v; *)
(*   - response times, rates and timestamps reported as floats are         *)
(*     fixed-point numbers with one decimal digit (1206 is 120.6), counts  *)
(*     and the results of int() are whole numbers;                         *)
(*   - a key of a percentile dict is [type, repr]: the float 0.5 is        *)
(*     [type |-> "float", repr |-> "0.5"], the string "0.5" is             *)
(*     [type |-> "str", repr |-> "0.5"]; the two are different keys.       *)
(***************************************************************************)
EXTENDS Integers, Sequences, FiniteSets, TLC

VARIABLES
    \* TaskStats construction paths A and B
    stats_entry,   \* the counter source handed to TaskStats.from_stats_entry
    task,          \* outcome of TaskStats.from_stats_entry(stats_entry)
    values,        \* the flat row handed to TaskStats.from_list
    drift,         \* how the row's shape differs from the in-code schema
    rebuilt,       \* outcome of TaskStats.from_list(values)
    pc,            \* position in the path A / path B pipeline
    \* AggregatedStats normalization
    supplied,      \* the metadata / tasks values supplied to the constructor
    agg,           \* the AggregatedStats after __post_init__
    again,         \* the same object after __post_init__ ran a second time
    mapping,       \* the nested mapping of agg
    restored,      \* AggregatedStats constructed from mapping
    apc,           \* position in the normalization pipeline
    \* StatsCollector over a live Locust environment
    entries,       \* locust_env.stats.entries: (name, method) -> StatsEntry
    order,         \* iteration (insertion) order of the keys of entries
    locust_env,    \* run state: reset_stats, parsed_options, stats timestamps
    clock,         \* time.time()
    snapshots      \* the AggregatedStats returned by collect_stats() so far

taskVars == <<stats_entry, task, values, drift, rebuilt, pc>>
aggVars == <<supplied, agg, again, mapping, restored, apc>>
collectorVars == <<entries, order, locust_env, clock, snapshots>>
vars == <<stats_entry, task, values, drift, rebuilt, pc,
          supplied, agg, again, mapping, restored, apc,
          entries, order, locust_env, clock, snapshots>>

----------------------------------------------------------------------------
(* Bounds of the model *)

\* number of entries of locust's PERCENTILES_TO_REPORT that are configured
NumPercentiles == 2
\* longest tasks sequence supplied to the AggregatedStats constructor
MaxTasks == 2
\* number of collect_stats() calls in one run
MaxSnapshots == 2
\* number of updates of the live source by the load engine in one run
MaxUpdates == 3

----------------------------------------------------------------------------
(* Python values *)

None == <<>>
Some(v) == <<v>>

\* `x or 0` for an Optional number: None and 0 are falsy
OrZero(x) == IF x = None \/ x = Some(0) THEN 0 ELSE x[1]

\* int(x) for a non-negative float with one decimal digit: truncation
PyInt(x) == x \div 10

NoneValue == [type |-> "NoneType", fields |-> <<>>]
Instance(cls, rec) == [type |-> cls, fields |-> rec]
Dict(rec) == [type |-> "dict", fields |-> rec]

Return(v) == [raised |-> "none", value |-> v]
Raise(e) == [raised |-> e, value |-> NoneValue]

FloatKey(p) == [type |-> "float", repr |-> p]
\* str(percentile)
PyStr(k) == [type |-> "str", repr |-> k.repr]

\* locust.stats.PERCENTILES_TO_REPORT, imported at line 6
LocustPercentiles ==
    <<"0.5", "0.66", "0.75", "0.8", "0.9", "0.95", "0.98", "0.99", "0.999",
      "0.9999", "1.0">>
PERCENTILES_TO_REPORT ==
    [i \in 1..NumPercentiles |-> FloatKey(LocustPercentiles[i])]

RangeOf(s) == {s[i] : i \in DOMAIN s}
IndexOf(s, x) == CHOOSE i \in DOMAIN s : s[i] = x

----------------------------------------------------------------------------
(* TaskStats *)

\* fields(TaskStats): the fields in declaration order
TaskStatsFields ==
    <<"task_name", "request_method", "num_requests", "num_failures",
      "median_response_time", "average_response_time", "min_response_time",
      "max_response_time", "total_reqs_per_second", "total_fails_per_sec",
      "response_time_percentiles">>

\* TaskStats(**kwargs): the generated __init__ accepts exactly the declared
\* field names as keywords and raises TypeError otherwise
TaskStats(kwargs) ==
    IF kwargs.type = "dict" /\ DOMAIN kwargs.fields = RangeOf(TaskStatsFields)
    THEN Return(Instance("TaskStats", kwargs.fields))
    ELSE Raise("TypeError")

\* a variant that queries the source whatever its request count
get_percentiles_dict_always_queries(e) ==
    [k \in {PyStr(p) : p \in RangeOf(PERCENTILES_TO_REPORT)} |->
        PyInt(OrZero(e.percentile[k.repr]))]

\* a variant that rounds half up instead of truncating
get_percentiles_dict_rounds(e) ==
    IF e.num_requests = 0
    THEN [k \in RangeOf(PERCENTILES_TO_REPORT) |-> 0]
    ELSE [k \in {PyStr(p) : p \in RangeOf(PERCENTILES_TO_REPORT)} |->
            (OrZero(e.percentile[k.repr]) + 5) \div 10]

\* TaskStats.__get_percentiles_dict
get_percentiles_dict(e) ==
    IF e.num_requests = 0
    THEN [k \in RangeOf(PERCENTILES_TO_REPORT) |-> 0]
    ELSE [k \in {PyStr(p) : p \in RangeOf(PERCENTILES_TO_REPORT)} |->
            PyInt(OrZero(e.percentile[k.repr]))]

\* TaskStats.from_stats_entry
from_stats_entry(e) ==
    Instance("TaskStats",
        [task_name |-> e.name,
         request_method |-> e.method,
         num_requests |-> e.num_requests,
         num_failures |-> e.num_failures,
         median_response_time |-> e.median_response_time,
         average_response_time |-> e.avg_response_time,
         min_response_time |-> OrZero(e.min_response_time),
         max_response_time |-> e.max_response_time,
         total_reqs_per_second |-> e.total_rps,
         total_fails_per_sec |-> e.total_fail_per_sec,
         response_time_percentiles |-> get_percentiles_dict(e)])

\* TaskStats.from_list: values[i] and raw[i] raise IndexError past the end
\* of the list; values beyond the last index read are never looked at
from_list(row) ==
    IF Len(row) < Len(TaskStatsFields) THEN Raise("IndexError")
    ELSE LET inter_dict == [f \in RangeOf(TaskStatsFields) |->
                               row[IndexOf(TaskStatsFields, f)]]
             raw == inter_dict.response_time_percentiles
         IN  IF Len(raw) < Len(PERCENTILES_TO_REPORT) THEN Raise("IndexError")
             ELSE TaskStats(Dict(
                    [inter_dict EXCEPT !.response_time_percentiles =
                        [k \in {PyStr(p) : p \in RangeOf(PERCENTILES_TO_REPORT)} |->
                            raw[IndexOf(PERCENTILES_TO_REPORT, FloatKey(k.repr))]]]))

----------------------------------------------------------------------------
(* Paths A and B of TaskStats: a counter source is turned into a TaskStats, *)
(* the TaskStats is stored as a flat row, and the row is read back.         *)

\* what a counter source may report for an Optional response time
Reported == {None, Some(0), Some(4), Some(1206)}

\* counter sources: the scenario of the specification (100 requests, 2
\* failures, median 120, average 130.5, maximum 500, 10.0 and 0.2 per
\* second), and a source without requests; the minimum and the percentile
\* answers range over Reported whatever the request count is
CounterSources ==
    { [name |-> "alpha", method |-> "GET",
       num_requests |-> n,
       num_failures |-> IF n = 0 THEN 0 ELSE 2,
       median_response_time |-> IF n = 0 THEN 0 ELSE 120,
       avg_response_time |-> IF n = 0 THEN 0 ELSE 1305,
       min_response_time |-> m,
       max_response_time |-> IF n = 0 THEN 0 ELSE 5000,
       total_rps |-> IF n = 0 THEN 0 ELSE 100,
       total_fail_per_sec |-> IF n = 0 THEN 0 ELSE 2,
       percentile |-> q] :
      n \in {0, 100}, m \in Reported,
      q \in [{LocustPercentiles[i] : i \in 1..NumPercentiles} -> Reported] }

\* the value a percentile dict holds for the i-th configured percentile,
\* whichever the type of its key
PercentileValue(d, i) ==
    d[CHOOSE k \in DOMAIN d : k.repr = PERCENTILES_TO_REPORT[i].repr]

\* the flattened-row form of a TaskStats: its field values in declaration
\* order, the percentile mapping flattened in configured percentile order
Flatten(t) ==
    [i \in 1..Len(TaskStatsFields) |->
        IF TaskStatsFields[i] = "response_time_percentiles"
        THEN [j \in 1..Len(PERCENTILES_TO_REPORT) |->
                 PercentileValue(t.fields.response_time_percentiles, j)]
        ELSE t.fields[TaskStatsFields[i]]]

Drifts == {"none", "row_short", "row_long", "percentiles_short", "percentiles_long"}

\* a row whose shape has drifted from the in-code schema by one value
Drifted(row, d) ==
    LET last == Len(row) IN
    CASE d = "none" -> row
      [] d = "row_short" -> SubSeq(row, 1, last - 1)
      [] d = "row_long" -> Append(row, 0)
      [] d = "percentiles_short" ->
            [row EXCEPT ![last] = SubSeq(row[last], 1, Len(row[last]) - 1)]
      [] d = "percentiles_long" -> [row EXCEPT ![last] = Append(row[last], 0)]

AggIdle ==
    /\ supplied = NoneValue /\ agg = NoneValue /\ again = NoneValue
    /\ mapping = NoneValue /\ restored = NoneValue /\ apc = "idle"

CollectorIdle ==
    /\ entries = <<>> /\ order = <<>> /\ locust_env = NoneValue
    /\ clock = 0 /\ snapshots = <<>>

TaskIdle ==
    /\ stats_entry = NoneValue /\ task = NoneValue /\ values = <<>>
    /\ drift = "none" /\ rebuilt = NoneValue /\ pc = "idle"

TaskInit ==
    /\ stats_entry \in CounterSources
    /\ task = NoneValue
    /\ values = <<>>
    /\ drift = "none"
    /\ rebuilt = NoneValue
    /\ pc = "source"
    /\ AggIdle /\ CollectorIdle

\* path A: TaskStats.from_stats_entry(stats_entry)
FromStatsEntry ==
    /\ pc = "source"
    /\ task' = from_stats_entry(stats_entry)
    /\ pc' = "built"
    /\ UNCHANGED <<stats_entry, values, drift, rebuilt>>
    /\ UNCHANGED aggVars /\ UNCHANGED collectorVars

\* the TaskStats is stored as a flat row; the stored schema may have drifted
StoreRow ==
    /\ pc = "built"
    /\ \E d \in Drifts :
          /\ drift' = d
          /\ values' = Drifted(Flatten(task), d)
    /\ pc' = "stored"
    /\ UNCHANGED <<stats_entry, task, rebuilt>>
    /\ UNCHANGED aggVars /\ UNCHANGED collectorVars

\* path B: TaskStats.from_list(values)
FromList ==
    /\ pc = "stored"
    /\ rebuilt' = from_list(values)
    /\ pc' = "rebuilt"
    /\ UNCHANGED <<stats_entry, task, values, drift>>
    /\ UNCHANGED aggVars /\ UNCHANGED collectorVars

TaskNext == FromStatsEntry \/ StoreRow \/ FromList

TaskSpec == TaskInit /\ [][TaskNext]_vars

StringKeys == {PyStr(p) : p \in RangeOf(PERCENTILES_TO_REPORT)}
Percentiles(t) == t.fields.response_time_percentiles
Built == pc \in {"built", "stored", "rebuilt"}

\* C1 as stated: for a counter source whose request count is zero, every
\* percentile value of the TaskStats is 0 and min_response_time is 0,
\* whatever the source reports for its minimum and its percentiles.
C1_ZeroRequestsAllZero ==
    (Built /\ stats_entry.num_requests = 0) =>
        /\ \A k \in DOMAIN Percentiles(task) : Percentiles(task)[k] = 0
        /\ task.fields.min_response_time = 0

\* C1 amended: for a counter source whose request count is zero, every
\* percentile value of the TaskStats is 0 whatever the source answers to
\* percentile queries, and min_response_time is 0 when the source reports an
\* absent or zero minimum and is the reported minimum otherwise.
C1_ZeroRequestsPercentilesZero ==
    (Built /\ stats_entry.num_requests = 0) =>
        /\ DOMAIN Percentiles(task) # {}
        /\ \A k \in DOMAIN Percentiles(task) : Percentiles(task)[k] = 0
        /\ task.fields.min_response_time =
              IF stats_entry.min_response_time = None THEN 0
              ELSE stats_entry.min_response_time[1]

\* a zero-request source that reports a minimum of 120.6 and non-zero
\* percentiles has been turned into a TaskStats
C1_Witness ==
    /\ Built /\ stats_entry.num_requests = 0
    /\ stats_entry.min_response_time = Some(1206)
    /\ \A q \in DOMAIN stats_entry.percentile :
          stats_entry.percentile[q] = Some(1206)

C3_KeysAreStrings ==
    Built => DOMAIN Percentiles(task) = StringKeys

\* C4: from_list fails, and returns no TaskStats, whenever the row or its
\* percentile sub-sequence has one value fewer or one value more than the
\* schema declares.
C4_DriftedRowRejected ==
    (pc = "rebuilt" /\ drift # "none") => rebuilt.raised # "none"

\* C5: flattening a TaskStats (also one built from a zero-request source)
\* to a row and passing the row to from_list yields an equal TaskStats.
C5_RowRoundTrip ==
    (pc = "rebuilt" /\ drift = "none") => rebuilt = Return(task)

----------------------------------------------------------------------------
(* StatsMetadata and AggregatedStats *)

\* common.stats.stats_config.StatsEnvironment
StatsEnvironment == {"TEST", "PROD"}

StatsMetadataFields ==
    <<"timestamp", "tag", "environment", "stats_reset_after_spawn",
      "num_total_users", "num_users_per_second", "total_runtime">>

\* StatsMetadata(**kwargs): TypeError unless kwargs is a mapping whose keys
\* are exactly the declared field names
StatsMetadata(kwargs) ==
    IF kwargs.type = "dict" /\ DOMAIN kwargs.fields = RangeOf(StatsMetadataFields)
    THEN Return(Instance("StatsMetadata", kwargs.fields))
    ELSE Raise("TypeError")

\* StatsMetadata.from_locust_env
from_locust_env(timestamp, tag, environment, env) ==
    Instance("StatsMetadata",
        [timestamp |-> timestamp,
         tag |-> tag,
         environment |-> environment,
         stats_reset_after_spawn |-> env.reset_stats,
         num_total_users |-> env.parsed_options.num_users,
         num_users_per_second |-> env.parsed_options.spawn_rate,
         total_runtime |-> env.stats.last_request_timestamp - env.stats.start_time])

\* a variant that keeps the supplied tasks as they are
post_init_keeps_tasks(self) ==
    LET m == StatsMetadata(self.metadata)
    IN  Return([metadata |-> IF m.raised = "none" THEN m.value ELSE self.metadata,
                tasks |-> self.tasks])

\* a variant whose tasks conversion is not guarded by try / except
post_init_unguarded_tasks(self) ==
    LET m == StatsMetadata(self.metadata)
        ts == [i \in DOMAIN self.tasks |-> TaskStats(self.tasks[i])]
    IN  IF \E i \in DOMAIN ts : ts[i].raised # "none" THEN Raise("TypeError")
        ELSE Return([metadata |-> IF m.raised = "none" THEN m.value
                                  ELSE self.metadata,
                     tasks |-> [i \in DOMAIN ts |-> ts[i].value]])

\* AggregatedStats.__post_init__: each of the two conversions is tried as a
\* whole and abandoned on TypeError; a TypeError raised for one element of
\* tasks abandons the whole list comprehension
post_init(self) ==
    LET m == StatsMetadata(self.metadata)
        ts == [i \in DOMAIN self.tasks |-> TaskStats(self.tasks[i])]
    IN  Return([metadata |-> IF m.raised = "none" THEN m.value ELSE self.metadata,
                tasks |-> IF \A i \in DOMAIN ts : ts[i].raised = "none"
                          THEN [i \in DOMAIN ts |-> ts[i].value]
                          ELSE self.tasks])

\* AggregatedStats(metadata=..., tasks=...): the generated __init__ assigns
\* the two fields and calls __post_init__
AggregatedStats(metadata, tasks) ==
    post_init([metadata |-> metadata, tasks |-> tasks])

\* the nested mapping of field names to values of a dataclass instance;
\* values that are not dataclass instances are carried over
AsDict(v) ==
    IF v.type \in {"StatsMetadata", "TaskStats"} THEN Dict(v.fields) ELSE v

AggregatedStatsAsDict(a) ==
    [metadata |-> AsDict(a.metadata),
     tasks |-> [i \in DOMAIN a.tasks |-> AsDict(a.tasks[i])]]

----------------------------------------------------------------------------
(* Normalization pipeline: values are supplied to the constructor, the     *)
(* normalization step is applied again, the result is serialized and read  *)
(* back.                                                                   *)

SampleMetadata ==
    { Instance("StatsMetadata",
        [timestamp |-> 1, tag |-> "nightly", environment |-> e,
         stats_reset_after_spawn |-> TRUE, num_total_users |-> 100,
         num_users_per_second |-> 100, total_runtime |-> 600]) :
      e \in StatsEnvironment }

\* one TaskStats of a source without requests, one of a source with requests
SampleTasks ==
    { from_stats_entry(e) :
        e \in { c \in CounterSources :
                  /\ c.min_response_time = None
                  /\ \A q \in DOMAIN c.percentile : c.percentile[q] = Some(1206) } }

\* a mapping that lacks one of the declared fields
Partial(d) ==
    Dict([f \in (DOMAIN d.fields) \ {"tag"} |-> d.fields[f]])

SuppliedMetadata ==
    {NoneValue} \cup SampleMetadata \cup {AsDict(m) : m \in SampleMetadata}
        \cup {Partial(AsDict(m)) : m \in SampleMetadata}

SuppliedTask == SampleTasks \cup {AsDict(t) : t \in SampleTasks}

SuppliedTasks == UNION {[1..n -> SuppliedTask] : n \in 0..MaxTasks}

IsTyped(v, cls) == v.type = cls
IsMapping(v, fieldNames) ==
    v.type = "dict" /\ DOMAIN v.fields = RangeOf(fieldNames)

AggInit ==
    /\ supplied \in [metadata : SuppliedMetadata, tasks : SuppliedTasks]
    /\ agg = NoneValue /\ again = NoneValue
    /\ mapping = NoneValue /\ restored = NoneValue
    /\ apc = "supplied"
    /\ TaskIdle /\ CollectorIdle

\* AggregatedStats(metadata=supplied.metadata, tasks=supplied.tasks)
Construct ==
    /\ apc = "supplied"
    /\ agg' = AggregatedStats(supplied.metadata, supplied.tasks)
    /\ apc' = "constructed"
    /\ UNCHANGED <<supplied, again, mapping, restored>>
    /\ UNCHANGED taskVars /\ UNCHANGED collectorVars

\* the normalization step applied to the constructed object once more
Renormalize ==
    /\ apc = "constructed" /\ agg.raised = "none"
    /\ again' = post_init(agg.value)
    /\ apc' = "renormalized"
    /\ UNCHANGED <<supplied, agg, mapping, restored>>
    /\ UNCHANGED taskVars /\ UNCHANGED collectorVars

\* the constructed object is serialized to its nested mapping
Serialize ==
    /\ apc = "constructed" /\ agg.raised = "none"
    /\ mapping' = AggregatedStatsAsDict(agg.value)
    /\ apc' = "serialized"
    /\ UNCHANGED <<supplied, agg, again, restored>>
    /\ UNCHANGED taskVars /\ UNCHANGED collectorVars

\* AggregatedStats(**mapping)
Reconstruct ==
    /\ apc = "serialized"
    /\ restored' = AggregatedStats(mapping.metadata, mapping.tasks)
    /\ apc' = "restored"
    /\ UNCHANGED <<supplied, agg, again, mapping>>
    /\ UNCHANGED taskVars /\ UNCHANGED collectorVars

AggNext == Construct \/ Renormalize \/ Serialize \/ Reconstruct

AggSpec == AggInit /\ [][AggNext]_vars

Constructed == apc \in {"constructed", "renormalized", "serialized", "restored"}

WellShapedMetadata(v) ==
    v = NoneValue \/ IsTyped(v, "StatsMetadata") \/ IsMapping(v, StatsMetadataFields)
WellShapedTask(v) == IsTyped(v, "TaskStats") \/ IsMapping(v, TaskStatsFields)

\* C6: after construction metadata is a typed StatsMetadata or absent and
\* every element of tasks is a typed TaskStats, whenever the supplied
\* metadata is typed, absent or a field-name mapping and each supplied task
\* is, independently of the others, typed or a field-name mapping; the
\* elements supplied typed are unchanged.
C6_NormalizedToTyped ==
    (/\ Constructed
     /\ WellShapedMetadata(supplied.metadata)
     /\ \A i \in DOMAIN supplied.tasks : WellShapedTask(supplied.tasks[i]))
    =>
    /\ agg.raised = "none"
    /\ agg.value.metadata = NoneValue \/ IsTyped(agg.value.metadata, "StatsMetadata")
    /\ DOMAIN agg.value.tasks = DOMAIN supplied.tasks
    /\ \A i \in DOMAIN agg.value.tasks :
          /\ IsTyped(agg.value.tasks[i], "TaskStats")
          /\ IsTyped(supplied.tasks[i], "TaskStats") =>
                agg.value.tasks[i] = supplied.tasks[i]

FullyTyped(a) ==
    /\ IsTyped(a.metadata, "StatsMetadata")
    /\ \A i \in DOMAIN a.tasks : IsTyped(a.tasks[i], "TaskStats")

\* C7: for an AggregatedStats with typed metadata and typed tasks,
\* serializing it to its nested mapping and constructing an AggregatedStats
\* from the mapping yields a value equal to it field for field.
C7_MappingRoundTrip ==
    (apc = "restored" /\ FullyTyped(agg.value)) =>
        /\ restored.raised = "none"
        /\ restored.value.metadata = agg.value.metadata
        /\ restored.value.tasks = agg.value.tasks

\* an AggregatedStats with typed metadata and two typed tasks, one of them
\* of a task without requests, has been serialized and read back
C7_Witness ==
    /\ apc = "restored" /\ FullyTyped(agg.value)
    /\ Len(agg.value.tasks) >= 2
    /\ \E i \in DOMAIN agg.value.tasks : agg.value.tasks[i].fields.num_requests = 0
    /\ \A i \in DOMAIN mapping.tasks : mapping.tasks[i].type = "dict"
    /\ mapping.metadata.type = "dict"

\* C8: applying the normalization step a second time raises no error and
\* leaves metadata and tasks as the first application left them, for typed,
\* mapping-shaped, mixed and absent inputs.
C8_NormalizationIdempotent ==
    apc = "renormalized" =>
        /\ again.raised = "none"
        /\ again.value.metadata = agg.value.metadata
        /\ again.value.tasks = agg.value.tasks

\* the step has been applied twice to an object built from a mapping-shaped
\* metadata and mapping-shaped tasks
C8_Witness ==
    /\ apc = "renormalized"
    /\ supplied.metadata.type = "dict"
    /\ Len(supplied.tasks) >= 2
    /\ \A i \in DOMAIN supplied.tasks : supplied.tasks[i].type = "dict"
    /\ FullyTyped(agg.value)

----------------------------------------------------------------------------
(* StatsCollector over the live source *)

\* the strings used as task names and request methods, in the order of
\* Python's string comparison
Alphabet == <<"GET", "POST", "alpha", "beta">>
StrLess(a, b) == IndexOf(Alphabet, a) < IndexOf(Alphabet, b)

\* comparison of the (name, method) tuples that key stats.entries
KeyLess(a, b) == StrLess(a[1], b[1]) \/ (a[1] = b[1] /\ StrLess(a[2], b[2]))

Keys == {<<"alpha", "GET">>, <<"alpha", "POST">>, <<"beta", "GET">>}

\* sorted(keys): insertion of each key of the iteration order in its place
Insert(x, s) ==
    LET n == Cardinality({i \in DOMAIN s : KeyLess(s[i], x)})
    IN  SubSeq(s, 1, n) \o <<x>> \o SubSeq(s, n + 1, Len(s))

RECURSIVE Sorted(_)
Sorted(s) ==
    IF s = <<>> THEN <<>>
    ELSE Insert(s[Len(s)], Sorted(SubSeq(s, 1, Len(s) - 1)))

\* locust.stats.sort_stats(stats): [stats[key] for key in sorted(stats.keys())]
sort_stats(stats, keys) ==
    [i \in 1..Len(keys) |-> stats[Sorted(keys)[i]]]

\* a variant that walks the entries in their iteration order
get_task_stats_list_unsorted(stats, keys) ==
    [i \in 1..Len(keys) |-> from_stats_entry(stats[keys[i]])]

\* StatsCollector._get_task_stats_list
get_task_stats_list(stats, keys) ==
    [i \in 1..Len(keys) |-> from_stats_entry(sort_stats(stats, keys)[i])]

\* the tag and the environment the StatsCollector was created with
stats_tag == "nightly"
running_env == "TEST"

\* StatsCollector.collect_stats
collect_stats(env, stats, keys, now) ==
    AggregatedStats(from_locust_env(now, stats_tag, running_env, env),
                    get_task_stats_list(stats, keys))

\* a StatsEntry without requests, as the load engine creates or resets it
EmptyEntry(k) ==
    [name |-> k[1], method |-> k[2], num_requests |-> 0, num_failures |-> 0,
     median_response_time |-> 0, avg_response_time |-> 0,
     min_response_time |-> None, max_response_time |-> 0,
     total_rps |-> 0, total_fail_per_sec |-> 0,
     percentile |-> [q \in {LocustPercentiles[i] : i \in 1..NumPercentiles} |-> None]]

\* a StatsEntry after one more request with response time rt was logged
Logged(e, rt, failed) ==
    LET lo == IF e.min_response_time = None \/ rt < e.min_response_time[1]
              THEN rt ELSE e.min_response_time[1]
        hi == IF rt > e.max_response_time THEN rt ELSE e.max_response_time
    IN  [e EXCEPT !.num_requests = @ + 1,
                  !.num_failures = IF failed THEN @ + 1 ELSE @,
                  !.median_response_time = PyInt(hi),
                  !.avg_response_time = (lo + hi) \div 2,
                  !.min_response_time = Some(lo),
                  !.max_response_time = hi,
                  !.total_rps = @ + 10,
                  !.total_fail_per_sec = IF failed THEN @ + 10 ELSE @,
                  !.percentile = [q \in DOMAIN @ |-> Some(hi)]]

\* the requests the load engine logs: a response time and whether it failed
Requests == {<<4, FALSE>>, <<1206, FALSE>>, <<1206, TRUE>>}

CollectorInit ==
    /\ entries = <<>>
    /\ order = <<>>
    /\ locust_env \in
          [reset_stats : BOOLEAN,
           parsed_options : [num_users : {100}, spawn_rate : {100}],
           stats : [start_time : {0}, last_request_timestamp : {0}]]
    /\ clock = 0
    /\ snapshots = <<>>
    /\ TaskIdle /\ AggIdle

\* the load engine logs a request of task k; the first request of a task
\* adds its entry to stats.entries
LogRequest ==
    /\ clock < MaxUpdates
    /\ \E k \in Keys, r \in Requests :
          /\ entries' = IF k \in DOMAIN entries
                         THEN [entries EXCEPT ![k] = Logged(@, r[1], r[2])]
                         ELSE (k :> Logged(EmptyEntry(k), r[1], r[2])) @@ entries
          /\ order' = IF k \in DOMAIN entries THEN order ELSE Append(order, k)
    /\ clock' = clock + 1
    /\ locust_env' = [locust_env EXCEPT !.stats.last_request_timestamp = clock']
    /\ UNCHANGED snapshots
    /\ UNCHANGED taskVars /\ UNCHANGED aggVars

\* the load engine resets the statistics once all users are spawned: every
\* entry is emptied and the run starts over
ResetStats ==
    /\ clock < MaxUpdates
    /\ locust_env.reset_stats
    /\ entries # <<>>
    /\ entries' = [k \in DOMAIN entries |-> EmptyEntry(k)]
    /\ clock' = clock + 1
    /\ locust_env' = [locust_env EXCEPT !.stats.start_time = clock']
    /\ UNCHANGED <<order, snapshots>>
    /\ UNCHANGED taskVars /\ UNCHANGED aggVars

\* a variant of collect_stats() that empties the entries it has read
CollectStatsAndReset ==
    /\ Len(snapshots) < MaxSnapshots
    /\ snapshots' = Append(snapshots, collect_stats(locust_env, entries, order, clock).value)
    /\ entries' = [k \in DOMAIN entries |-> EmptyEntry(k)]
    /\ UNCHANGED <<order, locust_env, clock>>
    /\ UNCHANGED taskVars /\ UNCHANGED aggVars

\* a caller takes a snapshot: StatsCollector.collect_stats()
CollectStats ==
    /\ Len(snapshots) < MaxSnapshots
    /\ snapshots' = Append(snapshots, collect_stats(locust_env, entries, order, clock).value)
    /\ UNCHANGED <<entries, order, locust_env, clock>>
    /\ UNCHANGED taskVars /\ UNCHANGED aggVars

CollectorNext == LogRequest \/ ResetStats \/ CollectStats

CollectorSpec == CollectorInit /\ [][CollectorNext]_vars

Collected == Len(snapshots') = Len(snapshots) + 1
Latest == snapshots[Len(snapshots)]
KeyOf(t) == <<t.fields.task_name, t.fields.request_method>>

\* C9: a collect_stats() call leaves every counter and run-state field of
\* the live source as it was, and a snapshot returned earlier is changed
\* neither by later updates of the source nor by later collect_stats() calls.
C9_CollectReadsOnly ==
    [][/\ Collected =>
            /\ entries' = entries
            /\ order' = order
            /\ locust_env' = locust_env
       /\ \A i \in DOMAIN snapshots :
            i \in DOMAIN snapshots' /\ snapshots'[i] = snapshots[i]]_vars

\* two snapshots were taken with updates of the source in between: they
\* differ, and the source still holds counted requests
C9_Witness ==
    /\ Len(snapshots) >= 2
    /\ snapshots[1].tasks # snapshots[2].tasks
    /\ snapshots[1].tasks # <<>>
    /\ \E k \in DOMAIN entries : entries[k].num_requests > 0

\* C10: collect_stats() returns an AggregatedStats whose tasks hold exactly
\* one TaskStats per entry of the source, none missing and none twice, in
\* the sort order of the entries' keys, whatever the iteration order of the
\* entries is.
C10_OneTaskPerEntrySorted ==
    [][Collected =>
        LET tasks == snapshots'[Len(snapshots')].tasks
        IN  /\ Len(tasks) = Cardinality(DOMAIN entries)
            /\ \A k \in DOMAIN entries :
                  \E i \in DOMAIN tasks :
                      /\ tasks[i] = from_stats_entry(entries[k])
                      /\ \A j \in DOMAIN tasks : KeyOf(tasks[j]) = k => j = i
            /\ \A i, j \in DOMAIN tasks :
                  i < j => KeyLess(KeyOf(tasks[i]), KeyOf(tasks[j]))
            /\ \A o \in [DOMAIN order -> DOMAIN entries] :
                  (\A k \in DOMAIN entries : \E i \in DOMAIN o : o[i] = k) =>
                      collect_stats(locust_env, entries, o, clock).value.tasks = tasks
      ]_vars

\* a snapshot was taken of a source with all three entries, created in an
\* order that is not their sort order
C10_Witness ==
    /\ snapshots # <<>>
    /\ Len(order) = Cardinality(Keys)
    /\ Len(Latest.tasks) = Len(order)
    /\ Sorted(order) # order

====
